---- MODULE Spec2Model ----
(***************************************************************************)
(* Triple-barrier labelling ("Machine Learning Approach/label.py") and the  *)
(* signal-following strategy of the backtest ("t/backtest.py").            *)
(*                                                                         *)
(* A price series is a pair of sequences (index, price): index holds the   *)
(* timestamps in whole days, strictly increasing; price the closing        *)
(* prices, positive integers.  An optional value (pandas NaN / NaT) is a   *)
(* set with at most one element; a pandas Series is a function from its    *)
(* index labels to its values.                                             *)
(*                                                                         *)
(* The volatility target is an exponentially weighted standard deviation,  *)
(* in general irrational.  It is kept exactly, as its square: a target is  *)
(* <<num, den>>, standing for sqrt(num / den) / PriceScale, and <<>> for   *)
(* NaN.  Every comparison the code makes against factor * target is made   *)
(* on the squares, so the model decides them as real arithmetic does       *)
(* (floating-point rounding at exact equality is not modelled).            *)
(*                                                                         *)
(* The amounts of the backtest (units, cash, values) are exact rationals   *)
(* <<num, den>> in lowest terms with den > 0; a local of the row loop that *)
(* has not been assigned yet is <<>>.                                      *)
(***************************************************************************)
EXTENDS Integers, Sequences, FiniteSets, TLC

\* ------------------------------------------------------------ bounds
MaxLen == 5                      \* longest price series
Prices == {1, 2, 3}              \* closing prices
Gaps == {1, 2}                   \* days between consecutive timestamps
Horizons == {0, 1, 2}            \* barrier_horizon
Factors == {0, 1, 2}             \* each of factors[0], factors[1]
VolSpans == {3}                  \* vol_span
Sides == {1, -1}                 \* a side prediction, the same at every timestamp
LabelModes == {0, 1}             \* 0 classification, 1 regression
MaxRows == 5                     \* most rows of the backtest window d1
Bases == {1, 3}                  \* base, the amount invested on the first row
Closes == {1, 2}                 \* row.Close
SignalValues == {-1, 0, 1}       \* row.Signal; NaN compares as any value other than 1

\* An optional argument: None is the empty set.
None == {}

\* ------------------------------------------------------------ helpers
Range(s) == {s[i] : i \in 1..Len(s)}

Min(S) == CHOOSE x \in S : \A y \in S : x <= y

Last(idx) == idx[Len(idx)]

\* Index.min() of a possibly empty selection: NaT when empty.
IndexMin(S) == IF S = {} THEN {} ELSE {Min(S)}

RECURSIVE Pow(_, _)
Pow(b, e) == IF e = 0 THEN 1 ELSE b * Pow(b, e - 1)

RECURSIVE Prod(_)
Prod(S) == IF S = {} THEN 1 ELSE LET x == CHOOSE y \in S : TRUE IN x * Prod(S \ {x})

RECURSIVE Sum(_, _)
Sum(f, n) == IF n = 0 THEN 0 ELSE f[n] + Sum(f, n - 1)

\* Every return price(t)/price(a) - 1 is a multiple of 1 / PriceScale.
PriceScale == Prod(Prices)

\* Series.loc[t] on the price series.
Loc(idx, pr, t) == pr[CHOOSE i \in 1..Len(idx) : idx[i] = t]

\* Variant: side='right', the number of labels at or below v.
SearchSorted_Right(idx, v) == Cardinality({i \in 1..Len(idx) : idx[i] <= v})

\* Index.searchsorted(v), side='left': the 0-based insertion position, the
\* number of labels strictly below v.
SearchSorted(idx, v) == Cardinality({i \in 1..Len(idx) : idx[i] < v})

Positive(d) == d > 0

\* ------------------------------------------------------------ get_daily_vol
OneDay == 1                      \* pd.Timedelta(days=1)

\* df = prices.index.searchsorted(prices.index - 1 day); df = df[df > 0];
\* pd.Series(prices.index[df - 1], index=prices.index[n - len(df):]):
\* the kept positions are paired, in order, with the last len(df) labels.
Anchors(idx) ==
  LET n == Len(idx)
      found == [i \in 1..n |-> SearchSorted(idx, idx[i] - OneDay)]
      df == SelectSeq(found, Positive)
      k == Len(df)
  IN [t \in {idx[n - k + j] : j \in 1..k} |->
        LET j == CHOOSE j \in 1..k : idx[n - k + j] = t
        IN idx[(df[j] - 1) + 1]]

\* prices.loc[df.index] / prices.loc[df.values].values - 1, in units of
\* 1 / PriceScale, as a sequence in index order.
AnchorReturns(idx, pr, anc) ==
  LET n == Len(idx)
      k == Cardinality(DOMAIN anc)
  IN [j \in 1..k |->
        LET t == idx[n - k + j]
            a == Loc(idx, pr, anc[t])
        IN (Loc(idx, pr, t) - a) * (PriceScale \div a)]

\* Series.ewm(span=span).std() at the m-th observation (adjust=True,
\* bias=False), squared: with alpha = 2 / (span + 1) observation i carries
\* the weight (1 - alpha)^(m - i), here scaled by (span + 1)^(m - 1);
\* var = (W * sum(w x^2) - sum(w x)^2) / (W^2 - sum(w^2)), NaN when the
\* denominator is 0 (always at m = 1).
EwmStd(x, m, span) ==
  LET w == [i \in 1..m |-> Pow(span - 1, m - i) * Pow(span + 1, i - 1)]
      W == Sum(w, m)
      S2 == Sum([i \in 1..m |-> w[i] * w[i]], m)
      SX == Sum([i \in 1..m |-> w[i] * x[i]], m)
      SXX == Sum([i \in 1..m |-> w[i] * x[i] * x[i]], m)
      den == W * W - S2
  IN IF den = 0 THEN <<>> ELSE <<W * SXX - SX * SX, den>>

GetDailyVolFrom(idx, pr, anc, lookback) ==
  LET n == Len(idx)
      k == Cardinality(DOMAIN anc)
      x == AnchorReturns(idx, pr, anc)
  IN [t \in DOMAIN anc |->
        EwmStd(x, CHOOSE j \in 1..k : idx[n - k + j] = t, lookback)]

get_daily_vol(idx, pr, lookback) == GetDailyVolFrom(idx, pr, Anchors(idx), lookback)

\* ------------------------------------------------------------ add_vertical_barrier
\* nearest_index = close.index.searchsorted(close.index + num_days days);
\* nearest_index = nearest_index[nearest_index < n];
\* pd.Series(close.index[nearest_index], index=close.index[:len(nearest_index)]).
add_vertical_barrier(idx, num_days) ==
  LET n == Len(idx)
      found == [i \in 1..n |-> SearchSorted(idx, idx[i] + num_days)]
      InRange(p) == p < n
      nearest_index == SelectSeq(found, InRange)
      k == Len(nearest_index)
  IN [t \in {idx[j] : j \in 1..k} |->
        LET j == CHOOSE j \in 1..k : idx[j] = t
        IN idx[nearest_index[j] + 1]]

\* ------------------------------------------------------------ comparisons with factor * target
\* a / b > f * trgt, for b > 0, f >= 0 and trgt = sqrt(num / den) / PriceScale.
Above(a, b, f, trgt) ==
  /\ a > 0
  /\ a * a * PriceScale * PriceScale * trgt[2] > f * f * trgt[1] * b * b

\* a / b < -f * trgt.
Below(a, b, f, trgt) == Above(-a, b, f, trgt)

\* ------------------------------------------------------------ touch_barrier
\* profit_taking = factor[0] * trgt when factor[0] > 0, else an all-NaN
\* Series, which no return exceeds.
ProfitTaking(factor) == IF factor[1] > 0 THEN {factor[1]} ELSE {}

\* stop_loss = -factor[1] * trgt when factor[1] > 0, else all NaN.
StopLoss(factor) == IF factor[2] > 0 THEN {factor[2]} ELSE {}

\* Variant: close[:vertical_barrier], the slice not started at the event.
Slice_FromSeriesStart(idx, from, to) == {t \in Range(idx) : t <= to}

\* close[loc:vertical_barrier]: the labels of the inclusive slice.
Slice(idx, from, to) == {t \in Range(idx) : from <= t /\ t <= to}

\* Variant: the return not multiplied by the side.
CumReturn_Unsigned(idx, pr, loc, t, side) == Loc(idx, pr, t) - Loc(idx, pr, loc)

\* cum_returns = (closing_prices / close[loc] - 1) * side[loc], as the
\* numerator over the denominator close[loc].
CumReturn(idx, pr, loc, t, side) == (Loc(idx, pr, t) - Loc(idx, pr, loc)) * side

\* Variant: stop_loss = +factor[1] * trgt, the sign lost: r < f * trgt.
StopLossHit_SignLost(idx, pr, ev, factor, loc, t) ==
  \E f \in StopLoss(factor) :
    LET a == CumReturn(idx, pr, loc, t, ev[loc].side)
        b == Loc(idx, pr, loc)
        trgt == ev[loc].trgt
    IN \/ a < 0
       \/ a * a * PriceScale * PriceScale * trgt[2] < f * f * trgt[1] * b * b

\* cum_returns < stop_loss[loc], at timestamp t of the event starting at loc.
StopLossHit(idx, pr, ev, factor, loc, t) ==
  \E f \in StopLoss(factor) :
    Below(CumReturn(idx, pr, loc, t, ev[loc].side), Loc(idx, pr, loc), f, ev[loc].trgt)

\* cum_returns > profit_taking[loc]
ProfitTakingHit(idx, pr, ev, factor, loc, t) ==
  \E f \in ProfitTaking(factor) :
    Above(CumReturn(idx, pr, loc, t, ev[loc].side), Loc(idx, pr, loc), f, ev[loc].trgt)

\* cum_returns[cum_returns < stop_loss[loc]].index.min()
SlTouch(idx, pr, ev, factor, loc, window) ==
  IndexMin({t \in window : StopLossHit(idx, pr, ev, factor, loc, t)})

\* Variant: .index.max(), the last touch instead of the first.
PtTouch_Last(idx, pr, ev, factor, loc, window) ==
  LET hit == {t \in window : ProfitTakingHit(idx, pr, ev, factor, loc, t)}
  IN IF hit = {} THEN {} ELSE {CHOOSE x \in hit : \A y \in hit : x >= y}

\* cum_returns[cum_returns > profit_taking[loc]].index.min()
PtTouch(idx, pr, ev, factor, loc, window) ==
  IndexMin({t \in window : ProfitTakingHit(idx, pr, ev, factor, loc, t)})

\* Variant: fillna(close.index[0]), the first timestamp instead of the last.
FillNa_First(idx, t1) == IF t1 = {} THEN idx[1] ELSE Min(t1)

\* events_["t1"].fillna(close.index[-1])
FillNa(idx, t1) == IF t1 = {} THEN idx[Len(idx)] ELSE Min(t1)

touch_barrier(idx, pr, ev, factor, dates) ==
  [loc \in dates |->
     LET window == Slice(idx, loc, FillNa(idx, ev[loc].t1))
     IN [t1 |-> ev[loc].t1,
         pt |-> PtTouch(idx, pr, ev, factor, loc, window),
         sl |-> SlTouch(idx, pr, ev, factor, loc, window)]]

\* ------------------------------------------------------------ get_events
\* side_prediction is None: barriers are made symmetric, [factor[0], factor[0]].
TouchFactors(factor, side_prediction) ==
  IF side_prediction = None THEN <<factor[1], factor[1]>> ELSE factor

\* side_ = pd.Series(1.0, ...) without a prediction, else the prediction
\* (the same side at every timestamp of the series).
SideOf(side_prediction) ==
  IF side_prediction = None THEN 1 ELSE CHOOSE x \in side_prediction : TRUE

\* pd.concat({"t1", "trgt", "side"}, axis=1).dropna(subset=["trgt"]): the
\* outer join keeps every label, those with a target that is not NaN stay.
JoinEvents(vb, target, side_prediction) ==
  [t \in {u \in DOMAIN target : target[u] # <<>>} |->
     [t1 |-> IF t \in DOMAIN vb THEN {vb[t]} ELSE {},
      trgt |-> target[t],
      side |-> SideOf(side_prediction)]]

FirstTouchDates(idx, pr, factor, target, vb, side_prediction) ==
  LET ev == JoinEvents(vb, target, side_prediction)
  IN touch_barrier(idx, pr, ev, TouchFactors(factor, side_prediction), DOMAIN ev)

\* first_touch_dates.loc[ind, :].dropna().min()
FirstTouch(row) == IndexMin(row.t1 \cup row.pt \cup row.sl)

\* The events table returned: t1 overwritten with the first touch, pt and sl
\* set to factor[0] and factor[1]; the side column is dropped when no
\* prediction was given (side = 0 stands for the absent column).
AssembleEvents(ftd, factor, target, side_prediction) ==
  [t \in DOMAIN ftd |->
     [t1 |-> FirstTouch(ftd[t]),
      trgt |-> target[t],
      side |-> IF side_prediction = None THEN 0 ELSE SideOf(side_prediction),
      pt |-> factor[1],
      sl |-> factor[2]]]

get_events(idx, pr, factor, target, vb, side_prediction) ==
  AssembleEvents(FirstTouchDates(idx, pr, factor, target, vb, side_prediction),
                 factor, target, side_prediction)

\* ------------------------------------------------------------ barrier_touched, get_labels
\* pt_level_reached = ret > top_barrier, with ret the price at t1 and
\* top_barrier = initial_price + initial_price * pt * target.
PtLevelReached(p0, p1, pt, trgt) == Above(p1 - p0, p0, pt, trgt)

\* sl_level_reached = ret < btm_barrier,
\* btm_barrier = initial_price - initial_price * sl * target.
SlLevelReached(p0, p1, sl, trgt) == Below(p1 - p0, p0, sl, trgt)

\* max([(ret - p0) / (top - p0), (ret - p0) / (p0 - btm)], key=abs): the
\* second only when strictly larger in magnitude.  <<a, d, trgt>> stands for
\* a / (d * trgt), inf or NaN when d * trgt = 0.
RegressionBin(p0, p1, pt, sl, trgt) ==
  LET a == p1 - p0
      second == a # 0 /\ trgt[1] > 0 /\ sl < pt
  IN <<a, p0 * (IF second THEN sl ELSE pt), trgt>>

Bin(mode, p0, p1, pt, sl, trgt) ==
  IF PtLevelReached(p0, p1, pt, trgt) THEN 1
  ELSE IF SlLevelReached(p0, p1, sl, trgt) THEN -1
  ELSE IF mode = 0 THEN 0
  ELSE RegressionBin(p0, p1, pt, sl, trgt)

\* events_ = triple_barrier_events.dropna(subset=["t1"])
Resolved(ev) == {t \in DOMAIN ev : ev[t].t1 # {}}

\* out_df: ret = price(t1) / price(t) - 1 as <<numerator, denominator>>,
\* trgt, bin, and side when the events carry one.
get_labels(idx, pr, ev, mode) ==
  [t \in Resolved(ev) |->
     LET p0 == Loc(idx, pr, t)
         p1 == Loc(idx, pr, Min(ev[t].t1))
     IN [ret |-> <<p1 - p0, p0>>,
         trgt |-> ev[t].trgt,
         bin |-> Bin(mode, p0, p1, ev[t].pt, ev[t].sl, ev[t].trgt),
         side |-> ev[t].side]]

\* ------------------------------------------------------------ the labelling run
VARIABLES index, price, vol_span, barrier_horizon, factors, side_prediction, label,
          t_minus_1, daily_vol, vertical_barriers, first_touch_dates, events, labels, pc

\* strategy(base, close, buy_signal, start, period): d1 holds the rows the loop
\* has read, the lists and the locals are those of the function, result is the
\* table it returns.
VARIABLES base, d1, Signal, TotalValues, CashHelds, UnitsInvested, UnitsHeld,
          Amount_Invested, UnitInvested, CashHeld, TotalValue, result

vars == <<index, price, vol_span, barrier_horizon, factors, side_prediction, label,
          t_minus_1, daily_vol, vertical_barriers, first_touch_dates, events, labels, pc,
          base, d1, Signal, TotalValues, CashHelds, UnitsInvested, UnitsHeld,
          Amount_Invested, UnitInvested, CashHeld, TotalValue, result>>

lists == <<Signal, TotalValues, CashHelds, UnitsInvested>>

locals == <<UnitsHeld, Amount_Invested, UnitInvested, CashHeld, TotalValue>>

backtest_vars == <<base, d1, lists, locals, result>>

label_vars == <<index, price, vol_span, barrier_horizon, factors, side_prediction, label,
                t_minus_1, daily_vol, vertical_barriers, first_touch_dates, events, labels>>

inputs == <<index, price, vol_span>>

RECURSIVE Cumulate(_, _)
Cumulate(g, n) == IF n = 0 THEN <<0>> ELSE
  LET s == Cumulate(g, n - 1) IN Append(s, s[n] + g[n])

\* Strictly increasing timestamps starting at day 0.
Indexes(n) == {Cumulate(g, n - 1) : g \in [1..(n - 1) -> Gaps]}

\* Only ratios of prices are ever used, so a series is taken up to scale: it
\* starts at price 1.
PriceSeries(n) == {p \in [1..n -> Prices] : p[1] = 1}

\* No backtest is running: its lists are empty and its locals unassigned.
NoBacktest ==
  /\ base = 1
  /\ d1 = <<>>
  /\ Signal = <<>>
  /\ TotalValues = <<>>
  /\ CashHelds = <<>>
  /\ UnitsInvested = <<>>
  /\ UnitsHeld = <<>>
  /\ Amount_Invested = <<>>
  /\ UnitInvested = <<>>
  /\ CashHeld = <<>>
  /\ TotalValue = <<>>
  /\ result = <<>>

Init ==
  /\ \E n \in 1..MaxLen :
       /\ index \in Indexes(n)
       /\ price \in PriceSeries(n)
  /\ vol_span \in VolSpans
  /\ barrier_horizon = 0
  /\ factors = <<0, 0>>
  /\ side_prediction = None
  /\ label = 0
  /\ t_minus_1 = <<>>
  /\ daily_vol = <<>>
  /\ vertical_barriers = <<>>
  /\ first_touch_dates = <<>>
  /\ events = <<>>
  /\ labels = <<>>
  /\ pc = "get_daily_vol"
  /\ NoBacktest

\* __init__: daily_vol = self.get_daily_vol(prices=price, lookback=vol_span)
GetDailyVol ==
  /\ pc = "get_daily_vol"
  /\ t_minus_1' = Anchors(index)
  /\ daily_vol' = get_daily_vol(index, price, vol_span)
  /\ pc' = "add_vertical_barrier"
  /\ UNCHANGED <<inputs, barrier_horizon, factors, side_prediction, label,
                 vertical_barriers, first_touch_dates, events, labels>>
  /\ UNCHANGED backtest_vars

\* __init__: vertical_barriers = self.add_vertical_barrier(close=price, num_days=barrier_horizon)
AddVerticalBarrier ==
  /\ pc = "add_vertical_barrier"
  /\ \E h \in Horizons :
       /\ barrier_horizon' = h
       /\ vertical_barriers' = add_vertical_barrier(index, h)
  /\ pc' = "get_events"
  /\ UNCHANGED <<inputs, factors, side_prediction, label,
                 t_minus_1, daily_vol, first_touch_dates, events, labels>>
  /\ UNCHANGED backtest_vars

\* get_events(close, factor, target, vertical_barrier, side_prediction)
CallGetEvents(f, sp) ==
  /\ pc = "get_events"
  /\ factors' = f
  /\ side_prediction' = sp
  /\ first_touch_dates' =
       FirstTouchDates(index, price, f, daily_vol, vertical_barriers, sp)
  /\ events' = AssembleEvents(first_touch_dates', f, daily_vol, sp)
  /\ pc' = "get_labels"
  /\ UNCHANGED <<inputs, barrier_horizon, label,
                 t_minus_1, daily_vol, vertical_barriers, labels>>
  /\ UNCHANGED backtest_vars

\* __init__: self.get_events(close=price, factor=factors, target=daily_vol,
\* vertical_barrier=vertical_barriers), no side_prediction.
GetEvents == \E f \in Factors \X Factors : CallGetEvents(f, None)

\* get_events called with a side_prediction.
GetEventsWithSide == \E f \in Factors \X Factors, x \in Sides : CallGetEvents(f, {x})

\* self.labels = self.get_labels(triple_barrier_events, price)
GetLabels ==
  /\ pc = "get_labels"
  /\ \E m \in LabelModes :
       /\ label' = m
       /\ labels' = get_labels(index, price, events, m)
  /\ pc' = "done"
  /\ UNCHANGED <<inputs, barrier_horizon, factors, side_prediction,
                 t_minus_1, daily_vol, vertical_barriers, first_touch_dates, events>>
  /\ UNCHANGED backtest_vars

\* TripleBarrier(price, vol_span, barrier_horizon, factors, label)
Next == GetDailyVol \/ AddVerticalBarrier \/ GetEvents \/ GetLabels

Spec == Init /\ [][Next]_vars

\* The same pipeline with get_events given a side prediction.
NextSide == GetDailyVol \/ AddVerticalBarrier \/ GetEventsWithSide \/ GetLabels

SpecSide == Init /\ [][NextSide]_vars

\* ------------------------------------------------------------ backtest.strategy
RECURSIVE Gcd(_, _)
Gcd(a, b) == IF b = 0 THEN a ELSE Gcd(b, a % b)

Abs(a) == IF a < 0 THEN -a ELSE a

\* The rational n / d, d > 0, in lowest terms.
Rat(n, d) == LET g == Gcd(Abs(n), d) IN <<n \div g, d \div g>>

\* The literal 0 the code assigns.
Zero == <<0, 1>>

Amount(k) == <<k, 1>>

\* x / row.Close and x * row.Close, row.Close a positive integer.
Div(x, c) == Rat(x[1], x[2] * c)

Mul(x, c) == Rat(x[1] * c, x[2])

Plus(x, y) == Rat(x[1] * y[2] + y[1] * x[2], x[2] * y[2])

Minus(x, y) == Plus(x, <<-y[1], y[2]>>)

\* Variant: the second row is not sold on a signal other than 1 (the clause
\* len(Signal) == 1 of the last elif left out).
Branch_SecondRowNotSold(sig, s) ==
  IF Len(sig) = 0 THEN 1
  ELSE IF (s = 1 /\ Last(sig) = 1) \/ (s = 1 /\ Len(sig) = 1) THEN 2
  ELSE IF s = 1 /\ Last(sig) # 1 THEN 3
  ELSE IF s # 1 /\ Last(sig) # 1 /\ Len(sig) > 1 THEN 4
  ELSE IF s # 1 /\ Last(sig) = 1 THEN 5
  ELSE 0

\* The branch of the if / elif chain a row takes, numbered in source order;
\* 0 when no condition holds and the row falls through.  sig is the list
\* Signal before the row, s is row.Signal.
Branch(sig, s) ==
  IF Len(sig) = 0 THEN 1
  ELSE IF (s = 1 /\ Last(sig) = 1) \/ (s = 1 /\ Len(sig) = 1) THEN 2
  ELSE IF s = 1 /\ Last(sig) # 1 THEN 3
  ELSE IF s # 1 /\ Last(sig) # 1 /\ Len(sig) > 1 THEN 4
  ELSE IF (s # 1 /\ Last(sig) = 1) \/ (s # 1 /\ Len(sig) = 1) THEN 5
  ELSE 0

\* No TripleBarrier is constructed while the backtest runs.
NoLabelling ==
  /\ index = <<>>
  /\ price = <<>>
  /\ vol_span \in VolSpans
  /\ barrier_horizon = 0
  /\ factors = <<0, 0>>
  /\ side_prediction = None
  /\ label = 0
  /\ t_minus_1 = <<>>
  /\ daily_vol = <<>>
  /\ vertical_barriers = <<>>
  /\ first_touch_dates = <<>>
  /\ events = <<>>
  /\ labels = <<>>

\* strategy(base, ...) before the row loop: the four lists are empty,
\* UnitsHeld = [] and the other locals are unassigned.
InitStrategy ==
  /\ NoLabelling
  /\ base \in Bases
  /\ d1 = <<>>
  /\ Signal = <<>>
  /\ TotalValues = <<>>
  /\ CashHelds = <<>>
  /\ UnitsInvested = <<>>
  /\ UnitsHeld = <<>>
  /\ Amount_Invested = <<>>
  /\ UnitInvested = <<>>
  /\ CashHeld = <<>>
  /\ TotalValue = <<>>
  /\ result = <<>>
  /\ pc = "strategy"

\* One iteration of "for row in d1.itertuples(...)": the branch taken assigns
\* some of the locals, the others keep their values; then the four appends.
StrategyRow ==
  /\ pc = "strategy"
  /\ Len(d1) < MaxRows
  /\ \E c \in Closes, s \in SignalValues :
       LET b == Branch(Signal, s) IN
       /\ d1' = Append(d1, [Close |-> c, Signal |-> s])
       /\ Amount_Invested' =
            CASE b = 1 -> Amount(base)
              [] b = 3 -> Last(CashHelds)
              [] OTHER -> Amount_Invested
       /\ UnitInvested' =
            CASE b \in {1, 3} -> Div(Amount_Invested', c)
              [] b = 2 -> UnitsHeld
              [] b \in {4, 5} -> Zero
              [] OTHER -> UnitInvested
       /\ UnitsHeld' =
            CASE b \in {1, 3} -> UnitInvested'
              [] b = 5 -> Zero
              [] OTHER -> UnitsHeld
       /\ CashHeld' =
            CASE b \in {1, 2, 3} -> Zero
              [] b = 4 -> Last(CashHelds)
              [] b = 5 -> Mul(UnitsHeld, c)
              [] OTHER -> CashHeld
       /\ TotalValue' =
            CASE b \in {1, 2, 3} -> Mul(UnitInvested', c)
              [] b \in {4, 5} -> Zero
              [] OTHER -> TotalValue
       /\ Signal' = Append(Signal, s)
       /\ TotalValues' = Append(TotalValues, TotalValue')
       /\ UnitsInvested' = Append(UnitsInvested, UnitInvested')
       /\ CashHelds' = Append(CashHelds, CashHeld')
  /\ UNCHANGED <<label_vars, base, result, pc>>

\* After the loop: the lists become columns of d1, TotalValue and Gain/Loss
\* are derived, and d1 is returned.
StrategyReturn ==
  /\ pc = "strategy"
  /\ result' = [i \in 1..Len(d1) |->
       [Close |-> d1[i].Close,
        Signal |-> d1[i].Signal,
        TotalUnitInvested |-> UnitsInvested[i],
        CashHeld |-> CashHelds[i],
        TotalInvestment |-> TotalValues[i],
        TotalValue |-> Plus(CashHelds[i], TotalValues[i]),
        GainLoss |-> Minus(Plus(CashHelds[i], TotalValues[i]), Amount(base))]]
  /\ pc' = "returned"
  /\ UNCHANGED <<label_vars, base, d1, lists, locals>>

NextStrategy == StrategyRow \/ StrategyReturn

SpecStrategy == InitStrategy /\ [][NextStrategy]_vars

\* ------------------------------------------------------------ properties
Max(S) == CHOOSE x \in S : \A y \in S : x >= y

VolDone == pc # "get_daily_vol"
BarrierDone == pc \notin {"get_daily_vol", "add_vertical_barrier"}
EventsDone == pc \in {"get_labels", "done"}
EventsReturned == pc = "get_labels"
LabelsDone == pc = "done"

\* C1 as stated: every event whose touch time was written has a vertical
\* barrier from add_vertical_barrier, and start <= t1 <= that barrier.
C1_TouchWithinVerticalBarrier ==
  EventsDone =>
    \A s \in DOMAIN events :
      events[s].t1 # {} =>
        /\ s \in DOMAIN vertical_barriers
        /\ s <= Min(events[s].t1)
        /\ Min(events[s].t1) <= vertical_barriers[s]

\* C1 amended: an event with a vertical barrier always resolves, to a time
\* in [start, vertical barrier]; an event without one resolves, if at all,
\* to a time in [start, last timestamp of the series].
C1_TouchBounded ==
  EventsDone =>
    \A s \in DOMAIN events :
      /\ s \in DOMAIN vertical_barriers => events[s].t1 # {}
      /\ events[s].t1 # {} =>
           /\ s <= Min(events[s].t1)
           /\ Min(events[s].t1) <=
                (IF s \in DOMAIN vertical_barriers THEN vertical_barriers[s] ELSE Last(index))

\* One event touches a horizontal barrier strictly inside (start, vertical
\* barrier), another has no vertical barrier and still resolves.
C1_Witness ==
  /\ EventsDone
  /\ \E s \in DOMAIN events :
       /\ s \in DOMAIN vertical_barriers
       /\ events[s].t1 # {}
       /\ s < Min(events[s].t1)
       /\ Min(events[s].t1) < vertical_barriers[s]
  /\ \E s \in DOMAIN events :
       /\ s \notin DOMAIN vertical_barriers
       /\ events[s].t1 # {}

\* C2 as stated: run by the constructor (no side prediction), the stop-loss
\* touch of every event with a vertical barrier is the earliest timestamp of
\* [start, vertical barrier] whose return is below -factors[1] * target
\* (undefined when factors[1] = 0 or there is none).
C2_StopLossUsesStopFactor ==
  (EventsDone /\ side_prediction = None) =>
    \A s \in DOMAIN first_touch_dates :
      s \in DOMAIN vertical_barriers =>
        first_touch_dates[s].sl =
          IndexMin({t \in Slice(index, s, vertical_barriers[s]) :
                      /\ factors[2] > 0
                      /\ Below(CumReturn(index, price, s, t, 1), Loc(index, price, s),
                               factors[2], daily_vol[s])})

\* C3 as stated: in classification mode, run by the constructor, bin = 1
\* exactly when the event resolved at its profit-take touch, bin = -1 exactly
\* when it resolved at its stop-loss touch, bin = 0 exactly when no
\* horizontal barrier was touched.  Stated for positive factors, equal or not
\* (both barriers active; a factor of 0 is the case of C5).
C3_BinIsFirstBarrierTouched ==
  (LabelsDone /\ label = 0 /\ side_prediction = None
     /\ factors[1] > 0 /\ factors[2] > 0) =>
    \A s \in DOMAIN labels :
      LET row == first_touch_dates[s] IN
      /\ labels[s].bin = 1 <=> (row.pt # {} /\ events[s].t1 = row.pt)
      /\ labels[s].bin = -1 <=> (row.sl # {} /\ events[s].t1 = row.sl)
      /\ labels[s].bin = 0 <=> (row.pt = {} /\ row.sl = {})

\* C4 as stated: every start timestamp in the labels has a vertical barrier.
C4_LabelledHaveVerticalBarrier ==
  LabelsDone => \A s \in DOMAIN labels : s \in DOMAIN vertical_barriers

\* C4 amended: an event without a vertical barrier is absent from the labels
\* exactly when no horizontal barrier is touched between its start and the
\* last timestamp of the series; every event with a vertical barrier is
\* labelled.
C4_UnbarrieredLabelledIffTouched ==
  LabelsDone =>
    LET ev == JoinEvents(vertical_barriers, daily_vol, side_prediction)
        f == TouchFactors(factors, side_prediction)
    IN \A s \in DOMAIN events :
         s \in DOMAIN labels <=>
           \/ s \in DOMAIN vertical_barriers
           \/ \E t \in Slice(index, s, Last(index)) :
                \/ StopLossHit(index, price, ev, f, s, t)
                \/ ProfitTakingHit(index, price, ev, f, s, t)

C4_Witness ==
  /\ LabelsDone
  /\ \E s \in DOMAIN events : s \notin DOMAIN vertical_barriers /\ s \notin DOMAIN labels
  /\ \E s \in DOMAIN events : s \notin DOMAIN vertical_barriers /\ s \in DOMAIN labels

\* C5 as stated: with factors = [0, 0] every labelled event resolves at its
\* vertical barrier and, in classification mode, has bin = 0.
C5_ZeroFactorsLabelZero ==
  (LabelsDone /\ label = 0 /\ factors = <<0, 0>>) =>
    \A s \in DOMAIN labels :
      /\ s \in DOMAIN vertical_barriers
      /\ events[s].t1 = {vertical_barriers[s]}
      /\ labels[s].bin = 0

\* C6 as stated: the anchor of t is the latest timestamp <= t - 1 day, and t
\* has an anchor whenever such a timestamp exists.
C6_AnchorAtMostOneDayBack ==
  VolDone =>
    \A t \in Range(index) :
      LET c == {u \in Range(index) : u <= t - OneDay} IN
      /\ c # {} => (t \in DOMAIN t_minus_1 /\ t_minus_1[t] = Max(c))
      /\ c = {} => t \notin DOMAIN t_minus_1

\* C7: add_vertical_barrier maps t to the first timestamp >= t + horizon,
\* drops exactly the t that have none, and keeps a prefix of the index.
C7_VerticalBarrierIsFirstAtOrAfter ==
  BarrierDone =>
    /\ \A t \in Range(index) :
         LET c == {u \in Range(index) : u >= t + barrier_horizon} IN
         /\ c = {} => t \notin DOMAIN vertical_barriers
         /\ c # {} => (t \in DOMAIN vertical_barriers /\ vertical_barriers[t] = Min(c))
    /\ DOMAIN vertical_barriers \subseteq Range(index)
    /\ \A t \in DOMAIN vertical_barriers :
         \A u \in Range(index) : u < t => u \in DOMAIN vertical_barriers

C7_Witness ==
  /\ BarrierDone
  /\ barrier_horizon > 0
  /\ \E t \in Range(index) : t \notin DOMAIN vertical_barriers
  /\ \E t \in DOMAIN vertical_barriers : vertical_barriers[t] > t + barrier_horizon
  /\ \E t \in DOMAIN vertical_barriers : vertical_barriers[t] = t + barrier_horizon

\* The events and first touches of the same run under other arguments.
EventsWith(f, sp) == get_events(index, price, f, daily_vol, vertical_barriers, sp)
TouchesWith(f, sp) == FirstTouchDates(index, price, f, daily_vol, vertical_barriers, sp)

ResolvedViaProfitTake(s) ==
  first_touch_dates[s].pt # {} /\ events[s].t1 = first_touch_dates[s].pt

\* C8 as stated: with everything else fixed, under any larger profit factor
\* an event that resolved via profit-take has a touch time, and it is not
\* earlier than before.
C8_WiderProfitBarrierDefinedAndLater ==
  EventsReturned =>
    \A pf \in Factors : pf > factors[1] =>
      LET wider == EventsWith(<<pf, factors[2]>>, side_prediction) IN
      \A s \in DOMAIN events : ResolvedViaProfitTake(s) =>
        LET t1 == wider[s].t1 IN
        /\ t1 # {}
        /\ Min(t1) >= Min(events[s].t1)

\* C8 amended: the touch time under the larger profit factor is never earlier
\* when it is defined, and it is defined whenever the event has a vertical
\* barrier.
C8_WiderProfitBarrierNeverEarlier ==
  EventsReturned =>
    \A pf \in Factors : pf > factors[1] =>
      LET wider == EventsWith(<<pf, factors[2]>>, side_prediction) IN
      \A s \in DOMAIN events : ResolvedViaProfitTake(s) =>
        LET t1 == wider[s].t1 IN
        /\ s \in DOMAIN vertical_barriers => t1 # {}
        /\ t1 # {} => Min(t1) >= Min(events[s].t1)

\* An event resolved via profit-take strictly before its vertical barrier
\* that, under a larger profit factor, resolves later.
C8_Witness ==
  /\ EventsReturned
  /\ \E pf \in Factors :
       /\ pf > factors[1]
       /\ \E s \in DOMAIN events :
            /\ ResolvedViaProfitTake(s)
            /\ s \in DOMAIN vertical_barriers
            /\ Min(events[s].t1) < vertical_barriers[s]
            /\ Min(EventsWith(<<pf, factors[2]>>, side_prediction)[s].t1) > Min(events[s].t1)

Flipped(sp) == {-x : x \in sp}

\* C9 as stated: with the price path, target, vertical barrier and factors
\* fixed, flipping the side flips the classification: bin = 1 becomes -1 and
\* bin = -1 becomes 1.  Stated for positive factors (both barriers active).
C9_SideFlipFlipsBin ==
  (LabelsDone /\ label = 0 /\ side_prediction # None
     /\ factors[1] > 0 /\ factors[2] > 0) =>
    LET other == get_labels(index, price, EventsWith(factors, Flipped(side_prediction)), 0) IN
    \A s \in DOMAIN labels \cap DOMAIN other :
      LET bin == other[s].bin IN
      /\ labels[s].bin = 1 => bin = -1
      /\ labels[s].bin = -1 => bin = 1

\* C9 amended: flipping the side exchanges the two conditions together with
\* their factors (the profit-take touch under side -x and factors [a, b] is
\* the stop-loss touch under side x and factors [b, a], and vice versa), so
\* with equal factors the resolved touch time is unchanged; the bin does not
\* flip: an event that resolves at the same time under both sides keeps it.
C9_SideFlipSwapsTouchesKeepsBin ==
  (LabelsDone /\ label = 0 /\ side_prediction # None) =>
    LET swapped == TouchesWith(<<factors[2], factors[1]>>, Flipped(side_prediction))
        flipped == EventsWith(factors, Flipped(side_prediction))
        other == get_labels(index, price, flipped, 0)
    IN \A s \in DOMAIN events :
         LET row == swapped[s]
             t1 == flipped[s].t1
         IN /\ row.pt = first_touch_dates[s].sl
            /\ row.sl = first_touch_dates[s].pt
            /\ factors[1] = factors[2] => t1 = events[s].t1
            /\ (t1 # {} /\ t1 = events[s].t1) => other[s].bin = labels[s].bin

\* With equal factors, an event that touched its profit-take barrier under
\* side +1 (bin = 1) touches its stop-loss barrier at the same time under
\* side -1.
C9_Witness ==
  /\ LabelsDone /\ label = 0 /\ side_prediction = {1}
  /\ factors[1] = factors[2]
  /\ \E s \in DOMAIN labels :
       /\ labels[s].bin = 1
       /\ ResolvedViaProfitTake(s)
       /\ TouchesWith(factors, {-1})[s].sl = events[s].t1

\* C10: within an event's scan window no timestamp satisfies the stop-loss
\* and the profit-take condition together, neither holds at the start, and
\* the two touch times differ when both are defined.
C10_StopLossAndProfitTakeExclusive ==
  EventsReturned =>
    LET ev == JoinEvents(vertical_barriers, daily_vol, side_prediction)
        f == TouchFactors(factors, side_prediction)
    IN \A s \in DOMAIN first_touch_dates :
         /\ \A t \in Slice(index, s, FillNa(index, ev[s].t1)) :
              ~(/\ StopLossHit(index, price, ev, f, s, t)
                /\ ProfitTakingHit(index, price, ev, f, s, t))
         /\ ~StopLossHit(index, price, ev, f, s, s)
         /\ ~ProfitTakingHit(index, price, ev, f, s, s)
         /\ (first_touch_dates[s].sl # {} /\ first_touch_dates[s].pt # {}) =>
              first_touch_dates[s].sl # first_touch_dates[s].pt

\* An event whose window touches both barriers.
C10_Witness ==
  /\ EventsReturned
  /\ \E s \in DOMAIN first_touch_dates :
       first_touch_dates[s].sl # {} /\ first_touch_dates[s].pt # {}

\* ------------------------------------------------------------ C11
IsPositive(x) == x # <<>> /\ x[1] > 0

\* Entirely in units / entirely in cash, for the units u, the cash c and the
\* invested value v recorded for one row.
InUnits(u, c, v) == c = Zero /\ IsPositive(u)

InCash(u, c, v) == u = Zero /\ v = Zero /\ IsPositive(c)

\* The branch row i of d1 took.
BranchOfRow(i) == Branch(SubSeq(Signal, 1, i - 1), d1[i].Signal)

\* C11: after every row of strategy() the position is either entirely in
\* units (CashHeld = 0, TotalUnitInvested > 0) or entirely in cash
\* (TotalUnitInvested = 0, TotalInvestment = 0, CashHeld > 0); it is in units
\* exactly when the row is the first row or its signal is 1; every row takes a
\* branch of the loop, so none reuses the values of the row before; and the
\* returned table carries the same three columns.
C11_RowInUnitsOrInCash ==
  /\ Len(Signal) = Len(d1)
  /\ \A i \in 1..Len(Signal) :
       LET u == UnitsInvested[i]
           c == CashHelds[i]
           v == TotalValues[i]
       IN /\ Signal[i] = d1[i].Signal
          /\ InUnits(u, c, v) \/ InCash(u, c, v)
          /\ InUnits(u, c, v) <=> (i = 1 \/ Signal[i] = 1)
          /\ BranchOfRow(i) # 0
  /\ pc = "returned" =>
       /\ Len(result) = Len(d1)
       /\ \A i \in 1..Len(result) :
            LET u == result[i].TotalUnitInvested
                c == result[i].CashHeld
                v == result[i].TotalInvestment
            IN /\ InUnits(u, c, v) \/ InCash(u, c, v)
               /\ InUnits(u, c, v) <=> (i = 1 \/ result[i].Signal = 1)

\* A returned table whose rows took all five branches, whose first row had a
\* signal other than 1 and which ended with a gain or a loss.
C11_Witness ==
  /\ pc = "returned"
  /\ Len(result) = MaxRows
  /\ {BranchOfRow(i) : i \in 1..Len(d1)} = 1..5
  /\ result[1].Signal # 1
  /\ InUnits(result[1].TotalUnitInvested, result[1].CashHeld, result[1].TotalInvestment)
  /\ \E i \in 1..Len(result) :
       /\ InCash(result[i].TotalUnitInvested, result[i].CashHeld, result[i].TotalInvestment)
       /\ result[i].GainLoss # Zero
====
